---------------------------- MODULE Spec2Model ----------------------------
(***************************************************************************)
(* Model of src/main.py: the transcript coding pipeline.                   *)
(*                                                                         *)
(* Text is a sequence of one-character strings, so that the line filter,   *)
(* the file-name tests and the codebook formatting are computed character  *)
(* by character, as the Python code computes them.  A character that a     *)
(* string of this language cannot hold is written as its code point:       *)
(* "U+00A0" is the no-break space, "U+017F" the long s.                    *)
(***************************************************************************)
EXTENDS Integers, Sequences, FiniteSets, TLC

(***************************************************************************)
(* Bounds of the model.                                                    *)
(***************************************************************************)
MaxChunks == 4
MaxLines == 3
MaxRows == 2
MaxFiles == 3

(***************************************************************************)
(* Characters and strings.                                                 *)
(***************************************************************************)
NL == "\n"

\* The characters of str.isspace(): the ASCII ones, the separators
\* U+001C..U+001F, NEL, the no-break space and the Unicode spaces.
WhitespaceChars ==
  { " ", "\t", NL, "\r", "\f", "U+000B", "U+001C", "U+001D", "U+001E", "U+001F",
    "U+0085", "U+00A0", "U+1680", "U+2000", "U+2001", "U+2002", "U+2003", "U+2004",
    "U+2005", "U+2006", "U+2007", "U+2008", "U+2009", "U+200A", "U+2028", "U+2029",
    "U+202F", "U+205F", "U+3000" }

\* str.strip() with no argument and the regex class \s of a str pattern:
\* Unicode whitespace.
IsSpace(c) == c \in WhitespaceChars

\* (?i) of a str pattern: case folding of the letters the label patterns are
\* made of.  Beside its capital, i also matches the dotted capital I (U+0130)
\* and the dotless i (U+0131), and s the long s (U+017F).
Lower(c) ==
  CASE c = "P" -> "p"
    [] c = "R" -> "r"
    [] c = "I" -> "i"
    [] c = "N" -> "n"
    [] c = "T" -> "t"
    [] c = "E" -> "e"
    [] c = "S" -> "s"
    [] c = "A" -> "a"
    [] c = "C" -> "c"
    [] c = "V" -> "v"
    [] c = "W" -> "w"
    [] c = "U+0130" -> "i"
    [] c = "U+0131" -> "i"
    [] c = "U+017F" -> "s"
    [] OTHER -> c

\* A delimiter class that has lost its hyphen.
IsDelimiterColonOnly(c) == c = ":"

\* [:\-] of both patterns.
IsDelimiter(c) == c \in {":", "-"}

RECURSIVE Flatten(_)
\* Concatenation of a sequence of strings.
Flatten(ss) == IF ss = <<>> THEN <<>> ELSE Head(ss) \o Flatten(Tail(ss))

\* str.startswith, case-insensitively when ci.
StartsWith(s, pre, ci) ==
  /\ Len(pre) <= Len(s)
  /\ \A i \in 1..Len(pre) :
       IF ci THEN Lower(s[i]) = Lower(pre[i]) ELSE s[i] = pre[i]

\* str.endswith.
EndsWith(s, suf) ==
  /\ Len(suf) <= Len(s)
  /\ SubSeq(s, Len(s) - Len(suf) + 1, Len(s)) = suf

RECURSIVE SplitFrom(_, _, _)
\* str.split(sep) for a one-character sep: the pieces from position i on,
\* cur being the piece under construction.
SplitFrom(s, i, cur) ==
  IF i > Len(s) THEN <<cur>>
  ELSE IF s[i] = NL THEN <<cur>> \o SplitFrom(s, i + 1, <<>>)
  ELSE SplitFrom(s, i + 1, Append(cur, s[i]))

Split(s) == SplitFrom(s, 1, <<>>)

RECURSIVE Join(_, _)
\* sep.join(parts)
Join(sep, parts) ==
  IF parts = <<>> THEN <<>>
  ELSE IF Len(parts) = 1 THEN parts[1]
  ELSE parts[1] \o sep \o Join(sep, Tail(parts))

RECURSIVE LStrip(_)
LStrip(s) == IF s # <<>> /\ IsSpace(Head(s)) THEN LStrip(Tail(s)) ELSE s

RECURSIVE RStrip(_)
RStrip(s) ==
  IF s # <<>> /\ IsSpace(s[Len(s)]) THEN RStrip(SubSeq(s, 1, Len(s) - 1)) ELSE s

\* str.strip()
Strip(s) == RStrip(LStrip(s))

(***************************************************************************)
(* 2. Remove interviewer lines (extract_interviewee_text).                 *)
(***************************************************************************)
\* The alternatives of the two patterns, in the order they are written.
IntervieweeLabels ==
  << <<"p","a","r","t","i","c","i","p","a","n","t">>,
     <<"i","n","t","e","r","v","i","e","w","e","e">>,
     <<"p">>,
     <<"r","e","s","p">>,
     <<"r">> >>

InterviewerLabels ==
  << <<"i","n","t","e","r","v","i","e","w","e","r">>,
     <<"i","n","t">>,
     <<"i">> >>

RECURSIVE SkipSpaces(_, _)
\* \s* (greedy) from position i: the first position that holds no whitespace.
SkipSpaces(s, i) ==
  IF i <= Len(s) /\ IsSpace(s[i]) THEN SkipSpaces(s, i + 1) ELSE i

\* One alternative followed by \s*[:\-], anchored at the start of the line:
\* the position of the delimiter, or 0 when this alternative does not match.
MatchAlt(line, label) ==
  IF ~StartsWith(line, label, TRUE) THEN 0
  ELSE LET j == SkipSpaces(line, Len(label) + 1)
       IN  IF j <= Len(line) /\ IsDelimiter(line[j]) THEN j ELSE 0

RECURSIVE MatchFrom(_, _, _)
\* The alternatives are tried in order; the first that matches decides.
MatchFrom(line, labels, k) ==
  IF k > Len(labels) THEN 0
  ELSE LET j == MatchAlt(line, labels[k])
       IN  IF j > 0 THEN j ELSE MatchFrom(line, labels, k + 1)

\* re.match(r"(?i)^(l1|l2|...)\s*[:\-]", line): position of the delimiter, or 0.
ReMatch(labels, line) == MatchFrom(line, labels, 1)

\* re.sub(r"(?i)^(l1|...)\s*[:\-]\s*", "", line) on a line that matches.
ReSubPrefix(labels, line) ==
  LET j == ReMatch(labels, line)
  IN  IF j = 0 THEN line
      ELSE SubSeq(line, SkipSpaces(line, j + 1), Len(line))

\* The loop body of a variant that keeps unlabeled lines (the commented-out
\* line 49 enabled).
FilterLineKeepUnlabeled(cleaned_lines, rawline) ==
  LET line == Strip(rawline)
  IN  IF line = <<>> THEN cleaned_lines
      ELSE IF ReMatch(IntervieweeLabels, line) > 0
           THEN Append(cleaned_lines, ReSubPrefix(IntervieweeLabels, line))
      ELSE IF ReMatch(InterviewerLabels, line) > 0 THEN cleaned_lines
      ELSE Append(cleaned_lines, line)

\* The loop body: one line of the text, cleaned_lines before and after.
FilterLine(cleaned_lines, rawline) ==
  LET line == Strip(rawline)
  IN  IF line = <<>> THEN cleaned_lines
      ELSE IF ReMatch(IntervieweeLabels, line) > 0
           THEN Append(cleaned_lines, ReSubPrefix(IntervieweeLabels, line))
      ELSE IF ReMatch(InterviewerLabels, line) > 0 THEN cleaned_lines
      ELSE cleaned_lines

RECURSIVE FilterLoop(_, _, _)
FilterLoop(lines, i, cleaned_lines) ==
  IF i > Len(lines) THEN cleaned_lines
  ELSE FilterLoop(lines, i + 1, FilterLine(cleaned_lines, lines[i]))

extract_interviewee_text(full_text) ==
  Join(<<NL>>, FilterLoop(Split(full_text), 1, <<>>))


(***************************************************************************)
(* State.  The f-variables hold one application of the line filter and a   *)
(* second application to its result; the t-variables one application of    *)
(* load_themes; the others are the run of process_folder.  The limit of    *)
(* digits is a setting of the interpreter the run is started in; it is     *)
(* fixed over the run, and the model settles it when the decoder first     *)
(* looks at it.                                                            *)
(***************************************************************************)
VARIABLES
  ftext, fout, fout2, fstage,
  ttable, tout, tstage,
  pc, listing, codebook, idx, theme_prompt, raw, participant_text,
  response, coded_items, df, disk, trace, calls, written, error,
  int_max_str_digits

fvars == <<ftext, fout, fout2, fstage>>
tvars == <<ttable, tout, tstage>>
pvars == <<pc, listing, codebook, idx, theme_prompt, raw, participant_text,
           response, coded_items, df, disk, trace, calls, written, error,
           int_max_str_digits>>
vars == <<fvars, tvars, pvars>>

(***************************************************************************)
(* Input texts of the line filter: every concatenation of at most          *)
(* MaxChunks chunks, and every text of at most MaxLines sample lines.      *)
(***************************************************************************)
Chunks ==
  { <<"p">>, <<"R">>, <<"r","e","s","p">>, <<"i","n","t">>, <<"I">>,
    <<" ">>, <<"\f">>, <<":">>, <<"-">>, <<"x">>, <<NL>> }

ChunkTexts ==
  { Flatten(cs) : cs \in UNION { [1..k -> Chunks] : k \in 0..MaxChunks } }

SampleLines ==
  { <<"P","a","r","t","i","c","i","p","a","n","t",":"," ","a","b">>,
    <<"R"," ","-"," ","c">>,
    <<"I","n","t","e","r","v","i","e","w","e","r",":"," ","q">>,
    <<>>,
    <<" "," ","i","n","t","e","r","v","i","e","w","e","e",":","d"," ">>,
    <<"x","y">>,
    <<"P",":"," ","R",":"," ","y">>,
    <<"I","N","T","-"," ","z">>,
    <<"\f","r","e","U+017F","p","U+00A0",":","U+2003","k","U+000B">>,
    <<"U+0131","n","t","e","r","v","U+0130","e","w","e","r","U+0085","-","h">> }

LineTexts ==
  { Join(<<NL>>, ls) : ls \in UNION { [1..k -> SampleLines] : k \in 1..MaxLines } }

FilterInputs == ChunkTexts \cup LineTexts

(***************************************************************************)
(* 3. Load themes sheet (load_themes).  A table is the data frame that     *)
(* pl.read_excel or pl.read_csv returns: its column names, and its rows,   *)
(* each the cells of one row in column order.                              *)
(***************************************************************************)
RECURSIVE IndexOf(_, _, _)
\* Position of name in cols from position i on, or 0.
IndexOf(cols, name, i) ==
  IF i > Len(cols) THEN 0
  ELSE IF cols[i] = name THEN i ELSE IndexOf(cols, name, i + 1)

\* row[name] of a named row: a KeyError when the table has no such column.
RowGet(table, r, name) ==
  LET c == IndexOf(table.cols, name, 1)
  IN  IF c = 0 THEN [ok |-> FALSE, val |-> <<>>]
      ELSE [ok |-> TRUE, val |-> table.rows[r][c]]

\* f"- {row['code']}: {row['definition']}"
ThemeLine(code, definition) ==
  <<"-", " ">> \o code \o <<":", " ">> \o definition

RECURSIVE ThemeLoop(_, _, _)
\* for row in df.iter_rows(named=True): lines.append(...)
ThemeLoop(table, r, lines) ==
  IF r > Len(table.rows) THEN [ok |-> TRUE, val |-> lines]
  ELSE LET code == RowGet(table, r, "code")
           definition == RowGet(table, r, "definition")
       IN  IF ~code.ok \/ ~definition.ok THEN [ok |-> FALSE, val |-> <<>>]
           ELSE ThemeLoop(table, r + 1,
                          Append(lines, ThemeLine(code.val, definition.val)))

\* A variant that ends every line, the last one too, with a newline.
JoinThemeLinesTrailing(lines) == Flatten([i \in 1..Len(lines) |-> lines[i] \o <<NL>>])

\* "\n".join(lines)
JoinThemeLines(lines) == Join(<<NL>>, lines)

\* [ok, val]: the text returned, or ok = FALSE for the KeyError of a row
\* access to a column the table does not have.
load_themes(table) ==
  LET r == ThemeLoop(table, 1, <<>>)
  IN  IF r.ok THEN [ok |-> TRUE, val |-> JoinThemeLines(r.val)]
      ELSE [ok |-> FALSE, val |-> <<>>]

(***************************************************************************)
(* 4. Code transcript using themes (code_transcript_with_themes).          *)
(* A model response is the sequence of the lexemes of its text; a parsed   *)
(* JSON value is a record [t, s, keys, items].                             *)
(***************************************************************************)
Punct(c) == [k |-> "punct", v |-> c]
Str(s) == [k |-> "str", v |-> s]
\* An integer literal without sign, s being its digits.
Num(s) == [k |-> "num", v |-> s]
\* The integer literal -s, s being its digits.
Neg(s) == [k |-> "neg", v |-> s]
\* A number literal with a fraction or an exponent.
Flt(s) == [k |-> "float", v |-> s]
Word(s) == [k |-> "word", v |-> s]
Ws == [k |-> "ws", v |-> " "]
\* A whitespace character of str.strip() that is no whitespace of JSON.
Nbsp == [k |-> "ws", v |-> "U+00A0"]

\* The whitespace the decoder skips: space, tab, newline, carriage return.
JsonWhitespace == {" ", "\t", NL, "\r"}

NullVal == [t |-> "null", s |-> "", keys |-> <<>>, items |-> <<>>]
StrVal(s) == [t |-> "str", s |-> s, keys |-> <<>>, items |-> <<>>]
NumVal(s) == [t |-> "num", s |-> s, keys |-> <<>>, items |-> <<>>]
BoolVal(s) == [t |-> "bool", s |-> s, keys |-> <<>>, items |-> <<>>]
FloatVal(s) == [t |-> "float", s |-> s, keys |-> <<>>, items |-> <<>>]
ArrVal(items) == [t |-> "arr", s |-> "", keys |-> <<>>, items |-> items]
ObjVal(keys, items) == [t |-> "obj", s |-> "", keys |-> keys, items |-> items]

\* The default of sys.get_int_max_str_digits(): int() of a literal of more
\* digits than the limit raises ValueError.
MaxStrDigits == 4300

\* The least limit that can be set; int() does not look at the limit for a
\* literal of at most this many digits.
MinStrDigits == 640

\* The limit switched off.
NoStrDigitsLimit == 0

\* The limit of the interpreter the run is started in: the default, or what
\* PYTHONINTMAXSTRDIGITS or -X int_max_str_digits sets.
IntLimits == {NoStrDigitsLimit, MinStrDigits, MaxStrDigits}

\* The limit before the decoder has looked at it in this run.
LimitUnread == -1

\* The decoder calls itself once for each array or object it opens, and
\* raises RecursionError when it opens one more than this: what the default
\* recursion limit of 1000 leaves at line 103 of a run of main.py.
MaxNesting == 993

RECURSIVE Rep(_, _)
\* s * n
Rep(s, n) ==
  IF n = 0 THEN ""
  ELSE IF n % 2 = 0 THEN LET h == Rep(s, n \div 2) IN h \o h
  ELSE s \o Rep(s, n - 1)

\* A run of n open square brackets, as one lexeme.
Opens(n) == [k |-> "opens", v |-> Rep("[", n)]

RECURSIVE Expand(_)
\* The lexemes with every run of brackets the decoder can open written out.
Expand(ts) ==
  IF ts = <<>> THEN <<>>
  ELSE IF Head(ts).k = "opens" /\ Len(Head(ts).v) <= MaxNesting
       THEN [x \in 1..Len(Head(ts).v) |-> Punct("[")] \o Expand(Tail(ts))
  ELSE <<Head(ts)>> \o Expand(Tail(ts))

\* int(digits) under the limit: ValueError when there are more digits than a
\* limit that is switched on.
IntTooLong(digits, limit) ==
  Len(digits) > MinStrDigits /\ limit # NoStrDigitsLimit /\ Len(digits) > limit

\* The limits the run can turn out to have when the decoder takes the text:
\* the one a longer integer has shown already; any, when this text is the
\* first to show it; and still unread when no integer of the text is long
\* enough for int() to look.
LimitsInForce(ts, seen) ==
  IF seen # LimitUnread THEN {seen}
  ELSE IF \E i \in 1..Len(ts) : ts[i].k \in {"num", "neg"} /\ Len(ts[i].v) > MinStrDigits
       THEN IntLimits
  ELSE {LimitUnread}

\* The literals of the decoder: null, true, false and the three constants
\* json.loads takes beside them.
JsonLiterals == {"null", "true", "false", "NaN", "Infinity", "-Infinity"}

\* None, True or False, float("nan"), float("inf"), float("-inf").
LitVal(s) ==
  IF s = "null" THEN NullVal
  ELSE IF s \in {"true", "false"} THEN BoolVal(s)
  ELSE FloatVal(s)

\* The decoder stops at the first thing it cannot take, with the exception
\* err: JSONDecodeError for a syntax error.
ParseErr(err) == [ok |-> FALSE, val |-> NullVal, next |-> 0, err |-> err]
ParseFail == ParseErr("JSONDecodeError")
ParseOk(val, next) == [ok |-> TRUE, val |-> val, next |-> next, err |-> ""]

RECURSIVE SkipWs(_, _)
SkipWs(ts, i) ==
  IF i <= Len(ts) /\ ts[i].k = "ws" /\ ts[i].v \in JsonWhitespace
  THEN SkipWs(ts, i + 1) ELSE i

IsPunct(ts, i, c) == i <= Len(ts) /\ ts[i] = Punct(c)

\* d[key] = val on a dict that keeps insertion order: a repeated key keeps its
\* place and takes the last value.
DictSet(keys, items, key, val) ==
  LET c == IndexOf(keys, key, 1)
  IN  IF c = 0 THEN [keys |-> Append(keys, key), items |-> Append(items, val)]
      ELSE [keys |-> keys, items |-> [items EXCEPT ![c] = val]]

RECURSIVE ParseValue(_, _, _, _)
RECURSIVE ParseElems(_, _, _, _, _)
RECURSIVE ParseMembers(_, _, _, _, _, _)

\* The JSON grammar, by recursive descent from lexeme i, depth arrays and
\* objects being open.
ParseValue(ts, i, depth, limit) ==
  LET j == SkipWs(ts, i)
  IN  IF j > Len(ts) THEN ParseFail
      ELSE IF ts[j].k = "str" THEN ParseOk(StrVal(ts[j].v), j + 1)
      ELSE IF ts[j].k = "num"
           THEN IF IntTooLong(ts[j].v, limit) THEN ParseErr("ValueError")
                ELSE ParseOk(NumVal(ts[j].v), j + 1)
      ELSE IF ts[j].k = "neg"
           THEN IF IntTooLong(ts[j].v, limit) THEN ParseErr("ValueError")
                ELSE ParseOk(NumVal("-" \o ts[j].v), j + 1)
      ELSE IF ts[j].k = "float" THEN ParseOk(FloatVal(ts[j].v), j + 1)
      ELSE IF ts[j].k = "word" /\ ts[j].v \in JsonLiterals
           THEN ParseOk(LitVal(ts[j].v), j + 1)
      ELSE IF ts[j].k = "opens"
           \* A run that Expand has left: more brackets than can be opened.
           THEN ParseErr("RecursionError")
      ELSE IF IsPunct(ts, j, "[")
           THEN IF depth + 1 > MaxNesting THEN ParseErr("RecursionError")
                ELSE LET e == SkipWs(ts, j + 1)
                     IN  IF IsPunct(ts, e, "]") THEN ParseOk(ArrVal(<<>>), e + 1)
                         ELSE ParseElems(ts, e, <<>>, depth + 1, limit)
      ELSE IF IsPunct(ts, j, "{")
           THEN IF depth + 1 > MaxNesting THEN ParseErr("RecursionError")
                ELSE LET e == SkipWs(ts, j + 1)
                     IN  IF IsPunct(ts, e, "}") THEN ParseOk(ObjVal(<<>>, <<>>), e + 1)
                         ELSE ParseMembers(ts, e, <<>>, <<>>, depth + 1, limit)
      ELSE ParseFail

ParseElems(ts, i, items, depth, limit) ==
  LET r == ParseValue(ts, i, depth, limit)
  IN  IF ~r.ok THEN r
      ELSE LET m == SkipWs(ts, r.next)
           IN  IF IsPunct(ts, m, ",")
               THEN ParseElems(ts, m + 1, Append(items, r.val), depth, limit)
               ELSE IF IsPunct(ts, m, "]")
                    THEN ParseOk(ArrVal(Append(items, r.val)), m + 1)
               ELSE ParseFail

ParseMembers(ts, i, keys, items, depth, limit) ==
  LET j == SkipWs(ts, i)
  IN  IF j > Len(ts) \/ ts[j].k # "str" THEN ParseFail
      ELSE LET c == SkipWs(ts, j + 1)
           IN  IF ~IsPunct(ts, c, ":") THEN ParseFail
               ELSE LET r == ParseValue(ts, c + 1, depth, limit)
                    IN  IF ~r.ok THEN r
                        ELSE LET d == DictSet(keys, items, ts[j].v, r.val)
                                 m == SkipWs(ts, r.next)
                             IN  IF IsPunct(ts, m, ",")
                                 THEN ParseMembers(ts, m + 1, d.keys, d.items, depth, limit)
                                 ELSE IF IsPunct(ts, m, "}")
                                      THEN ParseOk(ObjVal(d.keys, d.items), m + 1)
                                 ELSE ParseFail

\* A decoder that answers the empty list when the text is no JSON document.
json_loads_lenient(ts, limit) ==
  LET es == Expand(ts)
      r == ParseValue(es, 1, 0, limit)
  IN  IF r.ok /\ SkipWs(es, r.next) > Len(es) THEN [ok |-> TRUE, val |-> r.val, err |-> ""]
      ELSE [ok |-> TRUE, val |-> ArrVal(<<>>), err |-> ""]

\* json.loads(cleaned) in an interpreter with the given limit of digits: one
\* value, then nothing but whitespace.  With ok = FALSE, err is the exception
\* raised: json.JSONDecodeError for a syntax error or for text after the
\* value, ValueError for an integer literal of more digits than the limit,
\* RecursionError for nesting deeper than MaxNesting.
json_loads(ts, limit) ==
  LET es == Expand(ts)
      r == ParseValue(es, 1, 0, limit)
  IN  IF ~r.ok THEN [ok |-> FALSE, val |-> NullVal, err |-> r.err]
      ELSE IF SkipWs(es, r.next) > Len(es) THEN [ok |-> TRUE, val |-> r.val, err |-> ""]
      ELSE [ok |-> FALSE, val |-> NullVal, err |-> "JSONDecodeError"]

RECURSIVE StripToks(_)
\* response["message"]["content"].strip()
StripToks(ts) ==
  IF ts # <<>> /\ Head(ts).k = "ws" THEN StripToks(Tail(ts))
  ELSE IF ts # <<>> /\ ts[Len(ts)].k = "ws" THEN StripToks(SubSeq(ts, 1, Len(ts) - 1))
  ELSE ts

\* The THEMES part of system_prompt, as sent with a text that is dropped.
system_prompt_themes_dropped(themes) == <<>>

\* The THEMES part of system_prompt: the f-string embeds theme_prompt as it is.
system_prompt_themes(themes) == themes

(***************************************************************************)
(* 1. Load transcript files (load_transcript), and the file names of       *)
(* process_folder.                                                         *)
(***************************************************************************)
ExtTxt == <<".", "t", "x", "t">>
ExtDocx == <<".", "d", "o", "c", "x">>

\* filename.endswith(".txt") or filename.endswith(".docx")
IsSupported(filename) == EndsWith(filename, ExtTxt) \/ EndsWith(filename, ExtDocx)

RECURSIVE RFind(_, _, _)
\* str.rfind(c): the last position of c at or before i, or 0.
RFind(s, c, i) == IF i = 0 THEN 0 ELSE IF s[i] = c THEN i ELSE RFind(s, c, i - 1)

\* os.path.splitext(filename)[0] of a name without directory part: the name
\* up to its last dot, unless only dots precede that dot.
SplitextRoot(filename) ==
  LET dot == RFind(filename, ".", Len(filename))
  IN  IF dot > 0 /\ \E i \in 1..(dot - 1) : filename[i] # "."
      THEN SubSeq(filename, 1, dot - 1)
      ELSE filename

\* f"coded_{os.path.splitext(filename)[0]}.csv"
OutName(filename) ==
  <<"c", "o", "d", "e", "d", "_">> \o SplitextRoot(filename) \o <<".", "c", "s", "v">>

\* What load_transcript raises on a supported file it cannot read: open or
\* f.read fails (OSError), the bytes of a .txt file are not UTF-8
\* (UnicodeDecodeError), a .docx file is no package (PackageNotFoundError).
LoadErrors(path) ==
  IF EndsWith(path, ExtTxt) THEN {"OSError", "UnicodeDecodeError"}
  ELSE {"OSError", "PackageNotFoundError"}

\* The characters of ASCII that are written as a code point: the control
\* characters but tab, newline, form feed and carriage return.
AsciiControls ==
  { "U+0000", "U+0001", "U+0002", "U+0003", "U+0004", "U+0005", "U+0006", "U+0007",
    "U+0008", "U+000B", "U+000E", "U+000F", "U+0010", "U+0011", "U+0012", "U+0013",
    "U+0014", "U+0015", "U+0016", "U+0017", "U+0018", "U+0019", "U+001A", "U+001B",
    "U+001C", "U+001D", "U+001E", "U+001F", "U+007F" }

\* A character written as itself is one of ASCII.
IsAscii(c) == Len(c) = 1 \/ c \in AsciiControls

\* The characters of ASCII that an encoding of the standard library lacks:
\* cp864 has no percent sign.
EncodingGaps == {"%"}

\* Every encoding standard output may have holds the character.
IsPortable(c) == IsAscii(c) /\ c \notin EncodingGaps

\* What print raises when standard output does not take the text: OSError
\* (a closed pipe, a full disk), UnicodeError when the encoding of standard
\* output encodes no text at all (undefined) or not this one (idna), and
\* UnicodeEncodeError when the text holds a character that the encoding
\* lacks.
PrintErrors(text) ==
  {"OSError", "UnicodeError"} \cup
    (IF \E i \in 1..Len(text) : ~IsPortable(text[i]) THEN {"UnicodeEncodeError"} ELSE {})

\* The arrow of the message of line 136.
Arrow == "U+2192"

\* The text of a readable file holding the given lines: f.read() of a .txt
\* file, "\n".join of the paragraphs of a .docx file, ValueError otherwise.
load_transcript(path, lines) ==
  IF EndsWith(path, ExtTxt) THEN [ok |-> TRUE, val |-> Join(<<NL>>, lines)]
  ELSE IF EndsWith(path, ExtDocx) THEN [ok |-> TRUE, val |-> Join(<<NL>>, lines)]
  ELSE [ok |-> FALSE, val |-> <<>>]

(***************************************************************************)
(* pl.DataFrame(coded_items) and df.write_csv(out_path).                   *)
(***************************************************************************)
\* A str, int, float or bool.
IsScalar(v) == v.t \in {"str", "num", "bool", "float"}

RECURSIVE UnionKeys(_, _, _)
\* The keys of a list of objects, in the order they first appear.
UnionKeys(items, i, keys) ==
  IF i > Len(items) THEN keys
  ELSE UnionKeys(items, i + 1,
         keys \o SelectSeq(items[i].keys, LAMBDA k : IndexOf(keys, k, 1) = 0))

\* The cell of an object under a column: its value, or null.
Cell(obj, col) ==
  LET c == IndexOf(obj.keys, col, 1)
  IN  IF c = 0 THEN NullVal ELSE obj.items[c]

\* The frame of a value the constructor accepts: a list of objects gives one
\* row for each, under the union of their keys; a list of scalars one column;
\* an object one row.
FrameOf(v) ==
  IF v.t = "arr" /\ \A i \in 1..Len(v.items) : v.items[i].t = "obj"
  THEN LET cols == UnionKeys(v.items, 1, <<>>)
       IN  [cols |-> cols,
            rows |-> [i \in 1..Len(v.items) |->
                        [c \in 1..Len(cols) |-> Cell(v.items[i], cols[c])]]]
  ELSE IF v.t = "arr"
  THEN [cols |-> <<"column_0">>,
        rows |-> [i \in 1..Len(v.items) |-> <<v.items[i]>>]]
  ELSE IF v.t = "obj"
  THEN [cols |-> v.keys, rows |-> <<v.items>>]
  ELSE [cols |-> <<>>, rows |-> <<>>]

\* What the constructor can do with a value: it builds the frame of a list of
\* objects with text or null fields and the empty frame of None, it raises
\* TypeError for a bare text, number or truth value, and for the other shapes
\* (a single object, a list of scalars or of mixed values) it builds a frame
\* or raises, depending on the values.
DataFrameOutcomes(v) ==
  IF IsScalar(v) THEN {"error"}
  ELSE IF v.t = "null" THEN {"ok"}
  ELSE IF /\ v.t = "arr"
          /\ \A i \in 1..Len(v.items) :
               /\ v.items[i].t = "obj"
               /\ \A c \in 1..Len(v.items[i].items) :
                    v.items[i].items[c].t \in {"str", "null"}
       THEN {"ok"}
  ELSE {"ok", "error"}

\* The file df.write_csv leaves when it fails after creating the file: the
\* file is there and nothing has been written to it.
PartialFile(frame) == [cols |-> <<>>, rows |-> <<>>]

\* The file a successful df.write_csv leaves: the header and the rows.
CsvFile(frame) == [cols |-> frame.cols, rows |-> frame.rows]

\* The output directory after a file is created or replaced under name.
PutFile(d, name, content) ==
  {f \in d : f.name # name} \cup {[name |-> name, content |-> content]}

(***************************************************************************)
(* Inputs of a run of process_folder.                                      *)
(***************************************************************************)
\* Entries os.listdir may return: a.txt, a.docx, a.md, and a .txt file whose
\* name is e acute.
FileNames ==
  { <<"a">> \o ExtTxt, <<"a">> \o ExtDocx, <<"U+00E9">> \o ExtTxt, <<"a", ".", "m", "d">> }

\* A directory listing: distinct names, in the order the file system gives.
Listings ==
  { l \in UNION { [1..k -> FileNames] : k \in 0..MaxFiles } :
      \A i, j \in DOMAIN l : i # j => l[i] # l[j] }

\* Codebook tables: complete with two rows, without a definition column with
\* one row, without a definition column and without rows.
Codebooks ==
  { [cols |-> <<"code", "definition">>,
     rows |-> << <<<<"A">>, <<"f", "o", "o">>>>, <<<<"B">>, <<"b", "a", "r">>>> >>],
    [cols |-> <<"code", "name">>, rows |-> << <<<<"A">>, <<"f", "o", "o">>>> >>],
    [cols |-> <<"code", "name">>, rows |-> <<>>] }

\* The lines (.txt) or paragraphs (.docx) of a transcript file.
TranscriptLines ==
  { << <<"I","n","t","e","r","v","i","e","w","e","r",":"," ","q">>,
       <<"P","a","r","t","i","c","i","p","a","n","t",":"," ","a","b">>,
       <<"x","y">>,
       <<"R"," ","-"," ","c">> >> }

Obj3(kq, q, kt, t, ke, e) ==
  << Punct("{"), Str(kq), Punct(":"), Str(q), Punct(","), Str(kt), Punct(":"), Str(t),
     Punct(","), Str(ke), Punct(":"), Str(e), Punct("}") >>

QteObj(q, t, e) == Obj3("quote", q, "theme", t, "explanation", e)

\* Texts the model may answer with, each with the shape it has: an array of
\* quote/theme/explanation objects, another JSON document, or a text the
\* decoder does not take.
R_QteTwo ==
  [shape |-> "qte_array",
   toks |-> <<Nbsp, Ws, Punct("["), Ws>> \o QteObj("q1", "A", "e1") \o <<Punct(",")>>
            \o QteObj("q2", "B", "e2") \o <<Punct("]"), Ws>>]

R_QteNone == [shape |-> "qte_array", toks |-> <<Punct("["), Punct("]")>>]

R_Object == [shape |-> "object", toks |-> QteObj("q1", "A", "e1")]

R_ScalarList ==
  [shape |-> "scalar_list",
   toks |-> <<Punct("["), Str("q1"), Punct(","), Num("2"), Punct(","), Word("true"),
              Punct(","), Word("NaN"), Punct(","), Neg("3"), Punct(","), Flt("1.5"),
              Punct("]")>>]

R_Null == [shape |-> "null", toks |-> <<Word("null")>>]

R_OtherFields ==
  [shape |-> "other_fields",
   toks |-> <<Punct("["), Punct("{"), Str("text"), Punct(":"), Str("q1"), Punct(","),
              Str("code"), Punct(":"), Word("null"), Punct(","),
              Str("why"), Punct(":"), Str("e1"), Punct("}"), Punct("]")>>]

\* An integer of as many digits as int() takes.
R_Scalar == [shape |-> "scalar", toks |-> <<Num(Rep("1", MaxStrDigits))>>]

\* One digit more: decoded only when the limit is off.
R_IntTooLong ==
  [shape |-> "scalar", toks |-> <<Num(Rep("1", MaxStrDigits + 1))>>]

\* The decoder meets the integer before it could miss the closing bracket.
R_IntTooLongOpen ==
  [shape |-> "not_json", toks |-> <<Punct("["), Neg(Rep("1", MaxStrDigits + 1))>>]

\* One bracket more than the decoder can open.
R_TooDeep == [shape |-> "too_deep", toks |-> <<Opens(MaxNesting + 1)>>]

R_Preamble ==
  [shape |-> "not_json",
   toks |-> <<Word("Sure"), Punct(":"), Ws, Punct("[")>> \o QteObj("q1", "A", "e1")
            \o <<Punct("]")>>]

R_Truncated ==
  [shape |-> "not_json",
   toks |-> <<Punct("["), Punct("{"), Str("quote"), Punct(":"), Str("q1"), Punct(",")>>]

R_ExtraData == [shape |-> "not_json", toks |-> <<Punct("["), Punct("]"), Punct("]")>>]

R_InnerNbsp == [shape |-> "not_json", toks |-> <<Punct("["), Nbsp, Punct("]")>>]

R_Blank == [shape |-> "not_json", toks |-> <<Ws>>]

Responses ==
  { R_QteTwo, R_QteNone, R_Object, R_ScalarList, R_Null, R_OtherFields, R_Scalar,
    R_IntTooLong, R_IntTooLongOpen, R_TooDeep,
    R_Preamble, R_Truncated, R_ExtraData, R_InnerNbsp, R_Blank }

NoResponse == [shape |-> "none", toks |-> <<>>]
NoFrame == [cols |-> <<>>, rows |-> <<>>]

(***************************************************************************)
(* 5. process_folder, one action for each step of it.                      *)
(***************************************************************************)
Fail(exc) ==
  /\ pc' = "failed"
  /\ error' = exc

\* A loop that handles the same entry again.
NextIdxStay(i) == i

\* A loop that steps over the entry after the one it handled.
NextIdxSkip(i) == i + 2

\* The next position of the for loop over the listing.

NextIdx(i) == i + 1

\* os.makedirs(output_dir, exist_ok=True)
MakeDirs ==
  /\ pc = "start"
  /\ \/ /\ pc' = "load_themes"
        /\ trace' = Append(trace, <<"makedirs", 0>>)
        /\ UNCHANGED error
     \/ /\ Fail("OSError")
        /\ UNCHANGED trace
  /\ UNCHANGED <<fvars, tvars, int_max_str_digits, listing, codebook, idx, theme_prompt, raw, participant_text,
                 response, coded_items, df, disk, calls, written>>

\* theme_prompt = load_themes(theme_path)
LoadThemes ==
  /\ pc = "load_themes"
  /\ LET r == load_themes(codebook)
     IN  \/ /\ r.ok
            /\ theme_prompt' = r.val
            /\ pc' = "listdir"
            /\ trace' = Append(trace, <<"load_themes", 0>>)
            /\ UNCHANGED error
         \/ /\ ~r.ok
            /\ Fail("KeyError")
            /\ UNCHANGED <<theme_prompt, trace>>
         \/ /\ Fail("OSError")
            /\ UNCHANGED <<theme_prompt, trace>>
  /\ UNCHANGED <<fvars, tvars, int_max_str_digits, listing, codebook, idx, raw, participant_text,
                 response, coded_items, df, disk, calls, written>>

\* os.listdir(transcript_dir)
ListDir ==
  /\ pc = "listdir"
  /\ \/ /\ pc' = "loop"
        /\ idx' = 1
        /\ trace' = Append(trace, <<"listdir", 0>>)
        /\ UNCHANGED error
     \/ /\ Fail("OSError")
        /\ UNCHANGED <<idx, trace>>
  /\ UNCHANGED <<fvars, tvars, int_max_str_digits, listing, codebook, theme_prompt, raw, participant_text,
                 response, coded_items, df, disk, calls, written>>

\* The listing is exhausted: process_folder returns.
LoopDone ==
  /\ pc = "loop"
  /\ idx > Len(listing)
  /\ pc' = "done"
  /\ UNCHANGED <<fvars, tvars, int_max_str_digits, listing, codebook, idx, theme_prompt, raw, participant_text,
                 response, coded_items, df, disk, trace, calls, written, error>>

\* if not (...endswith...): continue
LoopSkip ==
  /\ pc = "loop"
  /\ idx <= Len(listing)
  /\ ~IsSupported(listing[idx])
  /\ idx' = NextIdx(idx)
  /\ UNCHANGED <<fvars, tvars, int_max_str_digits, pc, listing, codebook, theme_prompt, raw, participant_text,
                 response, coded_items, df, disk, trace, calls, written, error>>

\* print(f"=== Processing {filename} ==="): the line is printed, or print
\* raises because standard output does not take it.
LoopEnter ==
  /\ pc = "loop"
  /\ idx <= Len(listing)
  /\ IsSupported(listing[idx])
  /\ \/ /\ pc' = "load"
        /\ UNCHANGED error
     \/ \E exc \in PrintErrors(listing[idx]) : Fail(exc)
  /\ UNCHANGED <<fvars, tvars, int_max_str_digits, listing, codebook, idx, theme_prompt, raw, participant_text,
                 response, coded_items, df, disk, trace, calls, written>>

\* raw = load_transcript(full_path)
Load ==
  /\ pc = "load"
  /\ \/ \E lines \in TranscriptLines :
          LET r == load_transcript(listing[idx], lines)
          IN  \/ /\ r.ok
                 /\ raw' = r.val
                 /\ pc' = "filter"
                 /\ trace' = Append(trace, <<"load", idx>>)
                 /\ UNCHANGED error
              \/ /\ ~r.ok
                 /\ Fail("ValueError")
                 /\ UNCHANGED <<raw, trace>>
     \/ /\ \E exc \in LoadErrors(listing[idx]) : Fail(exc)
        /\ UNCHANGED <<raw, trace>>
  /\ UNCHANGED <<fvars, tvars, int_max_str_digits, listing, codebook, idx, theme_prompt, participant_text,
                 response, coded_items, df, disk, calls, written>>

\* participant_text = extract_interviewee_text(raw)
Filter ==
  /\ pc = "filter"
  /\ participant_text' = extract_interviewee_text(raw)
  /\ pc' = "chat"
  /\ trace' = Append(trace, <<"filter", idx>>)
  /\ UNCHANGED <<fvars, tvars, int_max_str_digits, listing, codebook, idx, theme_prompt, raw,
                 response, coded_items, df, disk, calls, written, error>>

\* response = chat(model="mistral", messages=[system, user])
Chat ==
  /\ pc = "chat"
  /\ calls' = Append(calls, [k |-> idx, themes |-> system_prompt_themes(theme_prompt)])
  /\ \/ \E r \in Responses :
          /\ response' = r
          /\ pc' = "parse"
          /\ trace' = Append(trace, <<"chat", idx>>)
          /\ UNCHANGED error
     \/ /\ Fail("ConnectionError")
        /\ UNCHANGED <<response, trace>>
  /\ UNCHANGED <<fvars, tvars, int_max_str_digits, listing, codebook, idx, theme_prompt, raw, participant_text,
                 coded_items, df, disk, written>>

\* cleaned = response["message"]["content"].strip(); return json.loads(cleaned)
Parse ==
  /\ pc = "parse"
  /\ \E limit \in LimitsInForce(response.toks, int_max_str_digits) :
       /\ int_max_str_digits' = limit
       /\ LET r == json_loads(StripToks(response.toks), limit)
          IN  \/ /\ r.ok
                 /\ coded_items' = r.val
                 /\ pc' = "frame"
                 /\ trace' = Append(trace, <<"parse", idx>>)
                 /\ UNCHANGED error
              \/ /\ ~r.ok
                 /\ Fail(r.err)
                 /\ UNCHANGED <<coded_items, trace>>
  /\ UNCHANGED <<fvars, tvars, listing, codebook, idx, theme_prompt, raw, participant_text,
                 response, df, disk, calls, written>>

\* df = pl.DataFrame(coded_items)
Frame ==
  /\ pc = "frame"
  /\ \/ /\ "ok" \in DataFrameOutcomes(coded_items)
        /\ df' = FrameOf(coded_items)
        /\ pc' = "write"
        /\ trace' = Append(trace, <<"frame", idx>>)
        /\ UNCHANGED error
     \/ /\ "error" \in DataFrameOutcomes(coded_items)
        /\ Fail("TypeError")
        /\ UNCHANGED <<df, trace>>
  /\ UNCHANGED <<fvars, tvars, int_max_str_digits, listing, codebook, idx, theme_prompt, raw, participant_text,
                 response, coded_items, disk, calls, written>>

\* df.write_csv(out_path), then print(f"Saved <U+2192> {out_path}"), whose
\* message holds the arrow U+2192.  A failing write either leaves the
\* directory as it was or has already created the file.  When the write
\* returns and print raises (UnicodeEncodeError on a standard output whose
\* encoding has no arrow, UnicodeError on one whose encoding takes no such
\* text, OSError on a closed pipe) the run stops with the complete file on disk.
\* The trace takes the event of a step that ran to its end.
Write ==
  /\ pc = "write"
  /\ LET name == OutName(listing[idx])
     IN  \/ /\ disk' = PutFile(disk, name, CsvFile(df))
            /\ written' = Append(written, [k |-> idx, name |-> name, shape |-> response.shape,
                                         content |-> CsvFile(df), complete |-> TRUE])
            /\ trace' = Append(trace, <<"write", idx>>)
            /\ pc' = "loop"
            /\ idx' = NextIdx(idx)
            /\ UNCHANGED error
         \/ /\ \E exc \in PrintErrors(<<Arrow>> \o name) : Fail(exc)
            /\ disk' = PutFile(disk, name, CsvFile(df))
            /\ written' = Append(written, [k |-> idx, name |-> name, shape |-> response.shape,
                                         content |-> CsvFile(df), complete |-> TRUE])
            /\ UNCHANGED <<trace, idx>>
         \/ /\ Fail("OSError")
            /\ UNCHANGED <<disk, written, trace, idx>>
         \/ /\ Fail("OSError")
            /\ disk' = PutFile(disk, name, PartialFile(df))
            /\ written' = Append(written, [k |-> idx, name |-> name, shape |-> response.shape,
                                         content |-> PartialFile(df), complete |-> FALSE])
            /\ UNCHANGED <<trace, idx>>
  /\ UNCHANGED <<fvars, tvars, int_max_str_digits, listing, codebook, theme_prompt, raw, participant_text,
                 response, coded_items, df, calls>>

FilterIdle == ftext = <<>> /\ fout = <<>> /\ fout2 = <<>> /\ fstage = 0
ThemesIdle == ttable = [cols |-> <<>>, rows |-> <<>>] /\ tout = <<>> /\ tstage = "idle"

\* The locals of process_folder before it runs.
ProcessLocals ==
  /\ idx = 0
  /\ theme_prompt = <<>>
  /\ raw = <<>>
  /\ participant_text = <<>>
  /\ response = NoResponse
  /\ coded_items = NullVal
  /\ df = NoFrame
  /\ disk = {}
  /\ trace = <<>>
  /\ calls = <<>>
  /\ written = <<>>
  /\ error = ""
  /\ int_max_str_digits = LimitUnread

ProcessIdle ==
  /\ pc = "idle"
  /\ listing = <<>>
  /\ codebook = [cols |-> <<>>, rows |-> <<>>]
  /\ ProcessLocals

Init ==
  /\ FilterIdle
  /\ ThemesIdle
  /\ pc = "start"
  /\ listing \in Listings
  /\ codebook \in Codebooks
  /\ ProcessLocals

Next ==
  \/ MakeDirs
  \/ LoadThemes
  \/ ListDir
  \/ LoopDone
  \/ LoopSkip
  \/ LoopEnter
  \/ Load
  \/ Filter
  \/ Chat
  \/ Parse
  \/ Frame
  \/ Write

\* A run of process_folder on any listing and codebook.
Spec == Init /\ [][Next]_vars

(***************************************************************************)
(* The line filter alone: applied to a text, then to its own result.       *)
(***************************************************************************)
FilterInit ==
  /\ ftext \in FilterInputs
  /\ fout = <<>>
  /\ fout2 = <<>>
  /\ fstage = 0
  /\ ThemesIdle
  /\ ProcessIdle

ApplyFilter ==
  /\ fstage = 0
  /\ fout' = extract_interviewee_text(ftext)
  /\ fstage' = 1
  /\ UNCHANGED <<ftext, fout2, tvars, pvars>>

ApplyFilterAgain ==
  /\ fstage = 1
  /\ fout2' = extract_interviewee_text(fout)
  /\ fstage' = 2
  /\ UNCHANGED <<ftext, fout, tvars, pvars>>

FilterNext == ApplyFilter \/ ApplyFilterAgain

SpecFilter == FilterInit /\ [][FilterNext]_vars

(***************************************************************************)
(* load_themes alone, on every table of at most MaxRows rows.              *)
(***************************************************************************)
ColumnLists ==
  { <<"code", "definition">>, <<"definition", "code">>, <<"code">>,
    <<"definition">>, <<"name", "definition">>, <<"code", "definition", "note">> }

\* The cells a column may hold.
CellsOf(col) ==
  IF col = "code" THEN { <<"A">>, <<"B">> }
  ELSE IF col = "definition" THEN { <<"f", "o", "o">>, <<"b", "a", "r">> }
  ELSE { <<"n">> }

RowsOf(cols) ==
  { r \in [1..Len(cols) -> UNION { CellsOf(c) : c \in {"code", "definition", "note"} }] :
      \A c \in 1..Len(cols) : r[c] \in CellsOf(cols[c]) }

Tables ==
  UNION { UNION { { [cols |-> cols, rows |-> rows] : rows \in [1..n -> RowsOf(cols)] } :
                  n \in 0..MaxRows } :
          cols \in ColumnLists }

ThemesInit ==
  /\ ttable \in Tables
  /\ tout = <<>>
  /\ tstage = "input"
  /\ FilterIdle
  /\ ProcessIdle

ThemesReturn ==
  /\ tstage = "input"
  /\ load_themes(ttable).ok
  /\ tout' = load_themes(ttable).val
  /\ tstage' = "returned"
  /\ UNCHANGED <<ttable, fvars, pvars>>

ThemesRaise ==
  /\ tstage = "input"
  /\ ~load_themes(ttable).ok
  /\ tstage' = "KeyError"
  /\ UNCHANGED <<ttable, tout, fvars, pvars>>

ThemesNext == ThemesReturn \/ ThemesRaise

SpecThemes == ThemesInit /\ [][ThemesNext]_vars

(***************************************************************************)
(* Properties.  The definitions below state what the outputs must be       *)
(* without using the operators that compute them.                          *)
(***************************************************************************)
RECURSIVE Offset(_, _)
\* Where part j starts in the join of parts with a one-character separator.
Offset(parts, j) == IF j = 1 THEN 0 ELSE Offset(parts, j - 1) + Len(parts[j - 1]) + 1

\* out is the parts, in order, with one newline between neighbours.
IsNewlineJoin(out, parts) ==
  IF parts = <<>> THEN out = <<>>
  ELSE /\ Len(out) = Offset(parts, Len(parts)) + Len(parts[Len(parts)])
       /\ \A j \in 1..Len(parts) :
            /\ \A i \in 1..Len(parts[j]) : out[Offset(parts, j) + i] = parts[j][i]
            /\ j > 1 => out[Offset(parts, j)] = NL

CasePairs ==
  { <<"p", "P">>, <<"a", "A">>, <<"r", "R">>, <<"t", "T">>, <<"i", "I">>, <<"c", "C">>,
    <<"n", "N">>, <<"e", "E">>, <<"v", "V">>, <<"w", "W">>, <<"s", "S">>,
    <<"i", "U+0130">>, <<"i", "U+0131">>, <<"I", "U+0130">>, <<"I", "U+0131">>,
    <<"U+0130", "U+0131">>, <<"s", "U+017F">>, <<"S", "U+017F">> }

SameLetter(a, b) == a = b \/ <<a, b>> \in CasePairs \/ <<b, a>> \in CasePairs

\* The breaks of a text: before it, its newlines, after it.
Breaks(s) == {0, Len(s) + 1} \cup {i \in 1..Len(s) : s[i] = NL}

\* The lines of a text, each as the pair of breaks around it.
LineSpans(s) ==
  { sp \in Breaks(s) \X Breaks(s) :
      sp[1] < sp[2] /\ \A b \in Breaks(s) : ~(sp[1] < b /\ b < sp[2]) }

Inked(s, sp) == {i \in (sp[1] + 1)..(sp[2] - 1) : ~IsSpace(s[i])}
Min(S) == CHOOSE x \in S : \A y \in S : x <= y
Max(S) == CHOOSE x \in S : \A y \in S : x >= y

\* The delimiter positions at which the trimmed line sp begins with one of the
\* labels, optional whitespace and a colon or hyphen.
LabelEnds(s, sp, labels) ==
  IF Inked(s, sp) = {} THEN {}
  ELSE LET lo == Min(Inked(s, sp))
           hi == Max(Inked(s, sp))
       IN  { d \in lo..hi :
               /\ s[d] \in {":", "-"}
               /\ \E l \in labels :
                    /\ lo + Len(l) <= d
                    /\ \A i \in 1..Len(l) : SameLetter(s[lo + i - 1], l[i])
                    /\ \A i \in (lo + Len(l))..(d - 1) : IsSpace(s[i]) }

IntervieweeSet == { IntervieweeLabels[i] : i \in DOMAIN IntervieweeLabels }
InterviewerSet == { InterviewerLabels[i] : i \in DOMAIN InterviewerLabels }

\* What is left of an interviewee line: the trimmed line after its label,
\* delimiter and the whitespace that follows.
Remainder(s, sp) ==
  LET hi == Max(Inked(s, sp))
      d == Min(LabelEnds(s, sp, IntervieweeSet))
      rest == {i \in (d + 1)..hi : ~IsSpace(s[i])}
  IN  IF rest = {} THEN <<>> ELSE SubSeq(s, Min(rest), hi)

\* The interviewee lines of a text, in the order of the text.
RetainedSpans(s) ==
  LET K == {sp \in LineSpans(s) : LabelEnds(s, sp, IntervieweeSet) # {}}
  IN  CHOOSE q \in [1..Cardinality(K) -> K] :
        \A i, j \in 1..Cardinality(K) : i < j => q[i][1] < q[j][1]

ExpectedFilterParts(s) ==
  LET q == RetainedSpans(s) IN [j \in 1..Len(q) |-> Remainder(s, q[j])]

\* Every line of the text that is not blank carries a speaker label.
AllLinesLabeled(s) ==
  /\ \E sp \in LineSpans(s) : Inked(s, sp) # {}
  /\ \A sp \in LineSpans(s) :
       Inked(s, sp) # {} =>
         LabelEnds(s, sp, IntervieweeSet) \cup LabelEnds(s, sp, InterviewerSet) # {}

\* C3 as stated: on labeled input, filtering the filtered text changes nothing.
C3_Idempotent == (fstage = 2 /\ AllLinesLabeled(ftext)) => fout2 = fout

\* C3 amended: a second application of the filter returns its input only when
\* that input, the filtered text, is empty; any other filtered text comes back
\* strictly shorter, its unlabeled lines being dropped.
C3_SecondPassShrinks ==
  fstage = 2 => IF fout = <<>> THEN fout2 = <<>>
                ELSE Len(fout2) < Len(fout) /\ fout2 # fout

C3_Witness ==
  /\ fstage = 2
  /\ AllLinesLabeled(ftext)
  /\ fout # <<>>
  /\ fout2 # <<>>

\* C4: the filter returns exactly the newline-join, in line order, of the
\* remainders of the interviewee-labeled lines; blank, interviewer and
\* unlabeled lines contribute nothing, and with no interviewee line the
\* result is the empty text.
C4_FilterOutput ==
  fstage >= 1 =>
    /\ IsNewlineJoin(fout, ExpectedFilterParts(ftext))
    /\ (\A sp \in LineSpans(ftext) : LabelEnds(ftext, sp, IntervieweeSet) = {})
         => fout = <<>>

C4_Witness ==
  /\ fstage = 1
  /\ ftext = <<"I","n","t","e","r","v","i","e","w","e","r",":"," ","q", NL,
               "P","a","r","t","i","c","i","p","a","n","t",":"," ","a","b", NL,
               "R"," ","-"," ","c">>
  /\ fout = <<"a", "b", NL, "c">>

\* The cell of row r under the column called name.
CellUnder(table, r, name) ==
  table.rows[r][CHOOSE c \in DOMAIN table.cols : table.cols[c] = name]

HasColumn(table, name) == \E c \in DOMAIN table.cols : table.cols[c] = name

ExpectedThemeLines(table) ==
  [r \in 1..Len(table.rows) |->
     <<"-", " ">> \o CellUnder(table, r, "code") \o <<":", " ">>
       \o CellUnder(table, r, "definition")]

\* C9: for a table with the columns code and definition, load_themes returns
\* one line "- <code>: <definition>" for each row, in row order, joined by
\* newlines with none before or after; no rows give the empty text.
C9_ThemesText ==
  (tstage # "input" /\ tstage # "idle"
     /\ HasColumn(ttable, "code") /\ HasColumn(ttable, "definition")) =>
    /\ tstage = "returned"
    /\ IsNewlineJoin(tout, ExpectedThemeLines(ttable))
    /\ ttable.rows = <<>> => tout = <<>>

C9_Witness ==
  /\ tstage = "returned"
  /\ ttable.cols = <<"code", "definition">>
  /\ tout = <<"-"," ","A",":"," ","f","o","o", NL, "-"," ","B",":"," ","b","a","r">>

(***************************************************************************)
(* Properties of a run of process_folder.                                  *)
(***************************************************************************)
TranscriptExts == {ExtTxt, ExtDocx}

\* name is stem followed by ext.
HasExt(name, ext) ==
  /\ Len(name) >= Len(ext)
  /\ \A i \in 1..Len(ext) : name[Len(name) - Len(ext) + i] = ext[i]

\* The positions of the listing that hold a transcript (.txt or .docx).
SupportedIdx ==
  {i \in 1..Len(listing) : \E ext \in TranscriptExts : HasExt(listing[i], ext)}

\* coded_<stem>.csv, <stem> being the name without its extension.
ExpectedOutName(name) ==
  LET ext == CHOOSE e \in TranscriptExts : HasExt(name, e)
  IN  <<"c", "o", "d", "e", "d", "_">> \o SubSeq(name, 1, Len(name) - Len(ext))
        \o <<".", "c", "s", "v">>

\* The positions of the trace that hold the event op of transcript k.
EventPos(op, k) == {i \in 1..Len(trace) : trace[i] = <<op, k>>}
Events(op) == {i \in 1..Len(trace) : trace[i][1] = op}
FileOps == <<"load", "filter", "chat", "parse", "frame", "write">>

\* The events of transcript k, in the order they happened.
StepsOf(k) == SelectSeq(trace, LAMBDA e : e[2] = k)

\* The codebook lacks one of the two columns load_themes reads.
LacksColumn(table) == ~HasColumn(table, "code") \/ ~HasColumn(table, "definition")

\* C1: a run in which every step succeeds ends with exactly one output file
\* for each listed .txt or .docx file, named coded_<stem>.csv, and none for
\* any other listed file.  (Stated for runs with a complete codebook.)
C1_OneOutputPerTranscript ==
  (pc = "done" /\ ~LacksColumn(codebook)) =>
    /\ {f.name : f \in disk} = {ExpectedOutName(listing[i]) : i \in SupportedIdx}
    /\ Cardinality(disk) = Cardinality(SupportedIdx)

\* C2: when a step fails on a transcript the run halts there: nothing is done
\* for any later file, and every output file written for an earlier
\* transcript is still on disk as it was written.  (Stated for runs with a
\* complete codebook, and for the outputs of well-formed responses.)
C2_FailureKeepsEarlierOutputs ==
  (pc = "failed" /\ ~LacksColumn(codebook)) =>
    /\ \A i \in 1..Len(trace) : trace[i][2] <= idx
    /\ \A i \in 1..Len(written) :
         (written[i].k < idx /\ written[i].complete /\ written[i].shape = "qte_array") =>
           [name |-> written[i].name, content |-> written[i].content] \in disk

\* C5: with a codebook that lacks the code or the definition column, rows or
\* no rows, load_themes fails, so the run never gets past it and no
\* transcript is sent to the model.
C5_MissingColumnFails ==
  LacksColumn(codebook) =>
    /\ pc \in {"start", "load_themes", "failed"}
    /\ calls = <<>>
    /\ Events("load_themes") = {}

\* What the decoder must return for each text it takes, written out by hand.
QteDict(q, t, e) ==
  ObjVal(<<"quote", "theme", "explanation">>, <<StrVal(q), StrVal(t), StrVal(e)>>)

Decoded ==
  { <<R_QteTwo, ArrVal(<<QteDict("q1", "A", "e1"), QteDict("q2", "B", "e2")>>)>>,
    <<R_QteNone, ArrVal(<<>>)>>,
    <<R_Object, QteDict("q1", "A", "e1")>>,
    <<R_ScalarList,
      ArrVal(<<StrVal("q1"), NumVal("2"), BoolVal("true"), FloatVal("NaN"),
               NumVal("-3"), FloatVal("1.5")>>)>>,
    <<R_Null, NullVal>>,
    <<R_OtherFields,
      ArrVal(<<ObjVal(<<"text", "code", "why">>, <<StrVal("q1"), NullVal, StrVal("e1")>>)>>)>>,
    <<R_Scalar, NumVal(Rep("1", MaxStrDigits))>>,
    <<R_IntTooLong, NumVal(Rep("1", MaxStrDigits + 1))>> }

\* The responses with an integer of more than MinStrDigits digits, and how
\* many digits it has.
LongInts ==
  { <<R_Scalar, MaxStrDigits>>, <<R_IntTooLong, MaxStrDigits + 1>>,
    <<R_IntTooLongOpen, MaxStrDigits + 1>> }

\* The exception the decoder must raise for a response in an interpreter with
\* the given limit of digits, "" when it must return a value.
ExpectedError(resp, limit) ==
  IF \E d \in LongInts : d[1] = resp /\ limit # NoStrDigitsLimit /\ d[2] > limit
  THEN "ValueError"
  ELSE IF resp.shape = "too_deep" THEN "RecursionError"
  ELSE IF resp.shape = "not_json" THEN "JSONDecodeError"
  ELSE ""

\* The run stopped in the step after the model call of the current transcript.
FailedAtParse ==
  /\ pc = "failed"
  /\ trace # <<>>
  /\ trace[Len(trace)] = <<"chat", idx>>

\* C6 as stated: a response that is not a JSON array of quote/theme/explanation
\* objects makes code_transcript_with_themes fail with a parse error, and no
\* output is written for that transcript.
C6_WrongShapeFails ==
  response.shape \notin {"qte_array", "none"} =>
    /\ pc = "parse" \/ (pc = "failed" /\ error = "JSONDecodeError")
    /\ \A i \in 1..Len(written) : written[i].k # idx

\* C6 amended: a response the decoder does not take makes
\* code_transcript_with_themes fail there, with JSONDecodeError for a syntax
\* error, ValueError for an integer of more digits than the limit of the
\* interpreter (4300 unless set otherwise, none when set to 0) and
\* RecursionError for arrays and objects nested deeper than the recursion
\* limit allows, and no output is written for that transcript; every other
\* response, whatever its shape, is returned as decoded, without an error of
\* the decoder.
C6_NotJsonFails ==
  /\ (pc # "parse" /\ response.shape # "none") =>
       LET err == ExpectedError(response, int_max_str_digits)
       IN  IF err # ""
           THEN /\ FailedAtParse
                /\ error = err
                /\ \A i \in 1..Len(written) : written[i].k # idx
                /\ EventPos("parse", idx) = {}
           ELSE /\ ~FailedAtParse
                /\ \E d \in Decoded : d[1] = response /\ d[2] = coded_items
  /\ FailedAtParse => response.shape # "none"
  /\ (\E d \in LongInts : d[1] = response) /\ pc # "parse" =>
       int_max_str_digits \in IntLimits

C6_Witness ==
  /\ pc = "failed"
  /\ error = "JSONDecodeError"
  /\ response.shape = "not_json"
  /\ Len(written) >= 1

\* C7: transcripts are handled one at a time in listing order: for each the
\* steps load, filter, model call, write happen in that order, everything for
\* transcript k is done before anything for a later one, and the model is
\* called at most once for each supported transcript.
C7_SequentialInOrder ==
  /\ \A k \in 1..Len(listing) :
       LET steps == StepsOf(k)
       IN  /\ Len(steps) <= Len(FileOps)
           /\ \A i \in 1..Len(steps) : steps[i][1] = FileOps[i]
           /\ Cardinality(EventPos("chat", k)) <= 1
           /\ steps # <<>> => k \in SupportedIdx
  /\ \A i \in 1..(Len(trace) - 1) :
       /\ trace[i][2] <= trace[i + 1][2]
       /\ (trace[i][2] > 0 /\ trace[i][2] < trace[i + 1][2]) => trace[i][1] = "write"
  /\ \A i \in 1..(Len(calls) - 1) : calls[i].k < calls[i + 1].k
  /\ \A i \in 1..Len(calls) : calls[i].k \in SupportedIdx

C7_Witness ==
  /\ pc = "done"
  /\ Len(calls) = 3
  /\ Len(listing) = 3

\* C8: the codebook is loaded once, before the first transcript is handled,
\* its text is not changed afterwards, and every model call of the run gets
\* that same text.
C8_CodebookLoadedOnce ==
  /\ Cardinality(Events("load_themes")) <= 1
  /\ \A i \in 1..Len(trace) :
       trace[i][2] > 0 => \E j \in 1..(i - 1) : trace[j][1] = "load_themes"
  /\ Events("load_themes") # {} =>
       IsNewlineJoin(theme_prompt, ExpectedThemeLines(codebook))
  /\ Events("load_themes") = {} => theme_prompt = <<>>
  /\ \A i \in 1..Len(calls) :
       /\ calls[i].themes = theme_prompt
       /\ calls[i].themes = calls[1].themes

C8_Witness ==
  /\ Len(calls) >= 2
  /\ calls[2].themes # <<>>
  /\ calls[2].themes = calls[1].themes

\* C10: an output file of the run exists only for a transcript that was
\* loaded, filtered, sent to the model and whose response was parsed, in
\* that order and before the write; the transcripts with an output are the
\* first supported files of the listing; and there are never more output
\* writes than completed model calls.
C10_OutputsFollowParsedResponses ==
  /\ \A f \in disk :
       \E i \in 1..Len(written) :
         written[i].name = f.name /\ written[i].content = f.content
  /\ \A i \in 1..Len(written) :
       LET k == written[i].k
       IN  /\ k \in SupportedIdx
           /\ written[i].name = ExpectedOutName(listing[k])
           /\ written[i].shape \notin {"not_json", "none"}
           /\ \E a \in EventPos("load", k), b \in EventPos("filter", k),
                 c \in EventPos("chat", k), d \in EventPos("parse", k) :
                a < b /\ b < c /\ c < d
           /\ \A w \in EventPos("write", k), d \in EventPos("parse", k) : d < w
  /\ \A i \in 1..Len(written) :
       \A k \in SupportedIdx :
         k < written[i].k => \E j \in 1..(i - 1) : written[j].k = k
  /\ Len(written) <= Cardinality(Events("parse"))
  /\ Cardinality(Events("write")) <= Cardinality(Events("chat"))

C10_Witness ==
  /\ pc = "chat"
  /\ Len(written) = 2
  /\ Cardinality(disk) = 2

=============================================================================
